---- MODULE Spec2Model ----
(***************************************************************************)
(* Model of receiver_view.py: the latest-frame cache (four module globals  *)
(* guarded by _lock), the two producer callbacks run by the receiver's     *)
(* delivery threads, and the display loop of main() with its               *)
(* try / except KeyboardInterrupt / finally teardown.                      *)
(*                                                                         *)
(* Every Python statement that touches shared state is one step, so all    *)
(* interleavings of the delivery threads and the main thread are explored. *)
(* KeyboardInterrupt is asynchronous: it is raised in the main thread at   *)
(* whatever statement the main thread is about to execute.                 *)
(***************************************************************************)
EXTENDS Integers, Sequences, FiniteSets, TLC

\* ---------------------------------------------------------------- bounds
\* total number of callback invocations delivered by the receiver
MaxPuts == 2

\* ------------------------------------------------------------- constants
\* ord("q"), the quit key
QuitKey == 113
\* key = cv2.waitKey(1) & 0xFF keeps the low byte: k % KeyMask
KeyMask == 256

\* delivery threads of the StreamReceiver that invoke the callbacks
Procs == {"t1", "t2"}
Main == "main"
NoThread == "none"
Streams == {"rgb", "slam"}
\* the frames the device sends: decoded pixel contents (one <<R, G, B>>
\* pixel) and the capture_timestamp_ns of the record
Frames == {[data |-> <<1, 2, 3>>, ts |-> 100], [data |-> <<4, 5, 6>>, ts |-> 200]}
\* raw return values of cv2.waitKey(1): no key, 'q', and 'q' with modifier
\* bits set above the low byte
KeyCodes == {-1, 113, 1048689}

\* Python None for an image variable, and for a timestamp variable
None == [obj |-> -1, data |-> <<>>]
NoneTs == -1
\* an idle delivery thread has no call in progress
NoCall == [stream |-> "none", data |-> <<>>, ts |-> NoneTs, id |-> 0]
\* a window that does not exist
NoWindow == [img |-> <<>>, text |-> -2]

VARIABLES
  lock,        \* _lock: the thread holding it, or NoThread
  latest_rgb, latest_slam, latest_rgb_ts, latest_slam_ts,   \* the cache
  ppc,         \* position of each delivery thread inside its callback
  call,        \* the arguments of the callback each delivery thread runs
  img,         \* the callback local img of each delivery thread
  pc,          \* position of the main thread in main()
  show_slam,   \* args.show_slam
  rgb, slam, rgb_ts, slam_ts,   \* locals of main(): the snapshot
  key,         \* local key of main()
  windows,     \* the HighGUI windows and what each displays
  presented,   \* which windows imshow has drawn in the current iteration
  destroyed,   \* cv2.destroyAllWindows() has been executed
  pending,     \* an exception is propagating through the finally block
  exit,        \* how main() ended: "none", "ok" or "KeyboardInterrupt"
  sigints,     \* number of interrupt signals received so far
  nPuts,       \* number of callback invocations so far
  log,         \* history: the completed callbacks in completion order
  snapLen      \* history: Len(log) when the current snapshot took the lock

cache == <<latest_rgb, latest_slam, latest_rgb_ts, latest_slam_ts>>
prodVars == <<ppc, call, img>>
snapVars == <<rgb, slam, rgb_ts, slam_ts>>
uiVars == <<key, windows, presented, destroyed>>
ctlVars == <<pending, exit, sigints>>
histVars == <<nPuts, log, snapLen>>
vars == <<lock, cache, prodVars, pc, show_slam, snapVars, uiVars, ctlVars, histVars>>

\* ------------------------------------------------------------ pure parts
\* image_data.to_numpy_array(): a new array object holding the decoded pixels
to_numpy_array(c) == [obj |-> c.id, data |-> c.data]

\* faulty variant: no copy is taken, the local names the cached array itself
NoCopy(a) == a

\* ndarray.copy(): a new private array (object 0) with the same contents
copy(a) == [obj |-> 0, data |-> a.data]

\* cv2.cvtColor(rgb, cv2.COLOR_RGB2BGR): channel order reversed, new array
cvtColor(a) == [obj |-> 0, data |-> <<a.data[3], a.data[2], a.data[1]>>]

\* cv2.putText(rgb_bgr, f"RGB ts(ns): {rgb_ts}", ...): what the window gets
putText(a, ts) == [img |-> a.data, text |-> ts]

\* faulty variant: every result of the key poll counts as the quit key
IsQuitAny(k) == TRUE

\* key == ord("q") after key = cv2.waitKey(1) & 0xFF
IsQuit(k) == k = QuitKey

\* positions of the main thread
LoopPCs == {"acquire", "copy_rgb", "copy_slam", "read_rgb_ts", "read_slam_ts",
            "release", "show_rgb", "show_slam", "waitKey", "sleep"}
MainCS == {"copy_rgb", "copy_slam", "read_rgb_ts", "read_slam_ts", "release"}
TeardownPCs == {"except", "finally", "print_done"}
\* positions of a delivery thread inside "with _lock:"
ProdCS == {"store_img", "store_ts", "release"}

\* the states of the display loop
RUNNING == pc \in LoopPCs
STOPPING == pc \in TeardownPCs
STOPPED == pc = "done"

\* ------------------------------------------------------------------ Init
Init ==
  /\ lock = NoThread
  /\ latest_rgb = None /\ latest_slam = None
  /\ latest_rgb_ts = NoneTs /\ latest_slam_ts = NoneTs
  /\ ppc = [p \in Procs |-> "idle"]
  /\ call = [p \in Procs |-> NoCall]
  /\ img = [p \in Procs |-> None]
  /\ pc = "start_server"
  /\ show_slam \in BOOLEAN
  /\ rgb = None /\ slam = None /\ rgb_ts = NoneTs /\ slam_ts = NoneTs
  /\ key = -1
  /\ windows = [s \in Streams |-> NoWindow]
  /\ presented = {}
  /\ destroyed = FALSE
  /\ pending = FALSE
  /\ exit = "none"
  /\ sigints = 0
  /\ nPuts = 0
  /\ log = <<>>
  /\ snapLen = 0

\* ------------------------------------------------- the lock (with _lock)
\* faulty variant: the lock excludes nobody
LockAlwaysFree(t) == TRUE

\* _lock.__enter__ by thread t: blocks until the lock is free
LockFree(t) == lock = NoThread

Acquire(t) == LockFree(t) /\ lock' = t

\* _lock.__exit__ by thread t
Release(t) == lock' = NoThread

\* ------------------------------------------ the producer callbacks
\* the SDK delivers a frame on stream s to delivery thread p: the callback
\* is invoked with image_data (pixels d) and image_record (timestamp t) and
\* runs its first statement, img = image_data.to_numpy_array(), which
\* touches only its own local and is done before the lock is asked for
Invoke(p, s, d, t) ==
  /\ pc # "start_server"
  /\ nPuts < MaxPuts
  /\ ppc[p] = "idle"
  /\ nPuts' = nPuts + 1
  /\ call' = [call EXCEPT ![p] = [stream |-> s, data |-> d, ts |-> t, id |-> nPuts + 1]]
  /\ img' = [img EXCEPT ![p] = to_numpy_array(call'[p])]
  /\ ppc' = [ppc EXCEPT ![p] = "acquire"]
  /\ UNCHANGED <<lock, cache, pc, show_slam, snapVars, uiVars, ctlVars, log, snapLen>>

\* with _lock: (entry)
CallbackAcquire(p) ==
  /\ ppc[p] = "acquire"
  /\ Acquire(p)
  /\ ppc' = [ppc EXCEPT ![p] = "store_img"]
  /\ UNCHANGED <<cache, call, img, pc, show_slam, snapVars, uiVars, ctlVars, histVars>>

\* faulty variant: the image is stored only into an empty slot (first write wins)
rgb_store_img_first(p) ==
  /\ latest_rgb' = IF latest_rgb = None THEN img[p] ELSE latest_rgb
  /\ UNCHANGED <<latest_slam, latest_rgb_ts, latest_slam_ts>>

\* _latest_rgb = img
rgb_store_img(p) ==
  /\ latest_rgb' = img[p]
  /\ UNCHANGED <<latest_slam, latest_rgb_ts, latest_slam_ts>>

\* faulty variant: the timestamp is stored only when it is newer than the stored one
rgb_store_ts_newest(p) ==
  /\ latest_rgb_ts' = IF call[p].ts > latest_rgb_ts THEN call[p].ts ELSE latest_rgb_ts
  /\ UNCHANGED <<latest_rgb, latest_slam, latest_slam_ts>>

\* _latest_rgb_ts = image_record.capture_timestamp_ns
rgb_store_ts(p) ==
  /\ latest_rgb_ts' = call[p].ts
  /\ UNCHANGED <<latest_rgb, latest_slam, latest_slam_ts>>

\* faulty variant: storing a SLAM image also clears the RGB image
slam_store_img_clearing(p) ==
  /\ latest_slam' = img[p]
  /\ latest_rgb' = None
  /\ UNCHANGED <<latest_rgb_ts, latest_slam_ts>>

\* _latest_slam = img
slam_store_img(p) ==
  /\ latest_slam' = img[p]
  /\ UNCHANGED <<latest_rgb, latest_rgb_ts, latest_slam_ts>>

\* _latest_slam_ts = image_record.capture_timestamp_ns
slam_store_ts(p) ==
  /\ latest_slam_ts' = call[p].ts
  /\ UNCHANGED <<latest_rgb, latest_slam, latest_rgb_ts>>

\* faulty variant: the "with _lock:" body ends after the image assignment, so the
\* timestamp is stored without the lock
StoreImgThenUnlock(p) ==
  /\ ppc[p] = "store_img"
  /\ IF call[p].stream = "rgb" THEN rgb_store_img(p) ELSE slam_store_img(p)
  /\ ppc' = [ppc EXCEPT ![p] = "store_ts"]
  /\ lock' = NoThread
  /\ UNCHANGED <<call, img, pc, show_slam, snapVars, uiVars, ctlVars, histVars>>

\* first statement of the "with _lock:" body of the callback
StoreImg(p) ==
  /\ ppc[p] = "store_img"
  /\ IF call[p].stream = "rgb" THEN rgb_store_img(p) ELSE slam_store_img(p)
  /\ ppc' = [ppc EXCEPT ![p] = "store_ts"]
  /\ UNCHANGED <<lock, call, img, pc, show_slam, snapVars, uiVars, ctlVars, histVars>>

\* second statement of the "with _lock:" body of the callback
StoreTs(p) ==
  /\ ppc[p] = "store_ts"
  /\ IF call[p].stream = "rgb" THEN rgb_store_ts(p) ELSE slam_store_ts(p)
  /\ ppc' = [ppc EXCEPT ![p] = "release"]
  /\ UNCHANGED <<lock, call, img, pc, show_slam, snapVars, uiVars, ctlVars, histVars>>

\* leaving "with _lock:"; the callback returns
CallbackRelease(p) ==
  /\ ppc[p] = "release"
  /\ Release(p)
  /\ log' = Append(log, [id |-> call[p].id, stream |-> call[p].stream,
                         data |-> call[p].data, ts |-> call[p].ts, inv |-> nPuts])
  /\ ppc' = [ppc EXCEPT ![p] = "idle"]
  /\ call' = [call EXCEPT ![p] = NoCall]
  /\ img' = [img EXCEPT ![p] = None]
  /\ UNCHANGED <<cache, pc, show_slam, snapVars, uiVars, ctlVars, nPuts, snapLen>>

\* one step of rgb_callback run by delivery thread p, the device sending
\* frames out of F
rgb_callback_from(p, F) ==
  \/ \E f \in F : Invoke(p, "rgb", f.data, f.ts)
  \/ /\ call[p].stream = "rgb"
     /\ CallbackAcquire(p) \/ StoreImg(p) \/ StoreTs(p) \/ CallbackRelease(p)

rgb_callback(p) == rgb_callback_from(p, Frames)

\* one step of slam_callback run by delivery thread p, the device sending
\* frames out of F
slam_callback_from(p, F) ==
  \/ \E f \in F : Invoke(p, "slam", f.data, f.ts)
  \/ /\ call[p].stream = "slam"
     /\ CallbackAcquire(p) \/ StoreImg(p) \/ StoreTs(p) \/ CallbackRelease(p)

slam_callback(p) == slam_callback_from(p, Frames)

\* ------------------------------------------------------------- main()
\* sr.start_server(): from here on the delivery threads invoke callbacks
StartServer ==
  /\ pc = "start_server"
  /\ pc' = "try"
  /\ UNCHANGED <<lock, cache, prodVars, show_slam, snapVars, uiVars, ctlVars, histVars>>

\* try: while True:
EnterTry ==
  /\ pc = "try"
  /\ pc' = "acquire"
  /\ UNCHANGED <<lock, cache, prodVars, show_slam, snapVars, uiVars, ctlVars, histVars>>

\* faulty variant: the loop waits at the top of an iteration until an RGB
\* frame has been delivered
SnapshotAcquireWaitsForFrame ==
  /\ pc = "acquire"
  /\ latest_rgb # None
  /\ Acquire(Main)
  /\ pc' = "copy_rgb"
  /\ presented' = {}
  /\ snapLen' = Len(log)
  /\ UNCHANGED <<cache, prodVars, show_slam, snapVars, key, windows, destroyed, ctlVars, nPuts, log>>

\* with _lock: (entry) at the top of an iteration
SnapshotAcquire ==
  /\ pc = "acquire"
  /\ Acquire(Main)
  /\ pc' = "copy_rgb"
  /\ presented' = {}
  /\ snapLen' = Len(log)
  /\ UNCHANGED <<cache, prodVars, show_slam, snapVars, key, windows, destroyed, ctlVars, nPuts, log>>

\* faulty variant: the RGB local is filled once and kept from then on
CopyRgbOnce ==
  /\ pc = "copy_rgb"
  /\ rgb' = IF rgb # None THEN rgb
            ELSE IF latest_rgb = None THEN None ELSE copy(latest_rgb)
  /\ pc' = "copy_slam"
  /\ UNCHANGED <<lock, cache, prodVars, show_slam, slam, rgb_ts, slam_ts, uiVars, ctlVars, histVars>>

\* faulty variant: the RGB local is copied from the SLAM slot
CopyRgbFromSlam ==
  /\ pc = "copy_rgb"
  /\ rgb' = IF latest_slam = None THEN None ELSE copy(latest_slam)
  /\ pc' = "copy_slam"
  /\ UNCHANGED <<lock, cache, prodVars, show_slam, slam, rgb_ts, slam_ts, uiVars, ctlVars, histVars>>

\* rgb = None if _latest_rgb is None else _latest_rgb.copy()
CopyRgb ==
  /\ pc = "copy_rgb"
  /\ rgb' = IF latest_rgb = None THEN None ELSE copy(latest_rgb)
  /\ pc' = "copy_slam"
  /\ UNCHANGED <<lock, cache, prodVars, show_slam, slam, rgb_ts, slam_ts, uiVars, ctlVars, histVars>>

\* slam = None if _latest_slam is None else _latest_slam.copy()
CopySlam ==
  /\ pc = "copy_slam"
  /\ slam' = IF latest_slam = None THEN None ELSE copy(latest_slam)
  /\ pc' = "read_rgb_ts"
  /\ UNCHANGED <<lock, cache, prodVars, show_slam, rgb, rgb_ts, slam_ts, uiVars, ctlVars, histVars>>

\* faulty variant: the RGB timestamp is read once and kept from then on
ReadRgbTsOnce ==
  /\ pc = "read_rgb_ts"
  /\ rgb_ts' = IF rgb_ts = NoneTs THEN latest_rgb_ts ELSE rgb_ts
  /\ pc' = "read_slam_ts"
  /\ UNCHANGED <<lock, cache, prodVars, show_slam, rgb, slam, slam_ts, uiVars, ctlVars, histVars>>

\* rgb_ts = _latest_rgb_ts
ReadRgbTs ==
  /\ pc = "read_rgb_ts"
  /\ rgb_ts' = latest_rgb_ts
  /\ pc' = "read_slam_ts"
  /\ UNCHANGED <<lock, cache, prodVars, show_slam, rgb, slam, slam_ts, uiVars, ctlVars, histVars>>

\* slam_ts = _latest_slam_ts
ReadSlamTs ==
  /\ pc = "read_slam_ts"
  /\ slam_ts' = latest_slam_ts
  /\ pc' = "release"
  /\ UNCHANGED <<lock, cache, prodVars, show_slam, rgb, slam, rgb_ts, uiVars, ctlVars, histVars>>

\* faulty variant: the display statements are inside the "with _lock:" body,
\* so the lock is still held when the loop goes on to render
SnapshotReleaseLate ==
  /\ pc = "release"
  /\ pc' = "show_rgb"
  /\ UNCHANGED <<lock, cache, prodVars, show_slam, snapVars, uiVars, ctlVars, histVars>>

\* leaving "with _lock:" in the display loop
SnapshotRelease ==
  /\ pc = "release"
  /\ Release(Main)
  /\ pc' = "show_rgb"
  /\ UNCHANGED <<cache, prodVars, show_slam, snapVars, uiVars, ctlVars, histVars>>

\* faulty variant: the RGB window is gated by --show-slam like the SLAM one
ShowRgbGated == show_slam /\ rgb # None

\* if rgb is not None: cvtColor, putText, imshow("Aria RGB (press q to quit)")
ShowRgbCond == rgb # None

ShowRgb ==
  /\ pc = "show_rgb"
  /\ IF ShowRgbCond
       THEN /\ windows' = [windows EXCEPT !["rgb"] = putText(cvtColor(rgb), rgb_ts)]
            /\ presented' = presented \cup {"rgb"}
       ELSE UNCHANGED <<windows, presented>>
  /\ pc' = "show_slam"
  /\ UNCHANGED <<lock, cache, prodVars, show_slam, snapVars, key, destroyed, ctlVars, histVars>>

\* faulty variant: the SLAM window is shown whenever a SLAM image is present
ShowSlamAlways == slam # None

\* if args.show_slam and slam is not None: imshow("Aria SLAM", slam)
ShowSlamCond == show_slam /\ slam # None

ShowSlam ==
  /\ pc = "show_slam"
  /\ IF ShowSlamCond
       THEN /\ windows' = [windows EXCEPT !["slam"] = [img |-> slam.data, text |-> NoneTs]]
            /\ presented' = presented \cup {"slam"}
       ELSE UNCHANGED <<windows, presented>>
  /\ pc' = "waitKey"
  /\ UNCHANGED <<lock, cache, prodVars, show_slam, snapVars, key, destroyed, ctlVars, histVars>>

\* the loop is left: no iteration and no snapshot is in progress any more
EndIteration == presented' = {} /\ snapLen' = 0

\* key = cv2.waitKey(1) & 0xFF; if key == ord("q"): break
WaitKey ==
  /\ pc = "waitKey"
  /\ \E k \in KeyCodes :
       /\ key' = k % KeyMask
       /\ pc' = IF IsQuit(k % KeyMask) THEN "finally" ELSE "sleep"
       /\ IF IsQuit(k % KeyMask) THEN EndIteration ELSE UNCHANGED <<presented, snapLen>>
  /\ UNCHANGED <<lock, cache, prodVars, show_slam, snapVars, windows, destroyed, ctlVars, nPuts, log>>

\* time.sleep(0.001), then the next iteration
Sleep ==
  /\ pc = "sleep"
  /\ pc' = "acquire"
  /\ UNCHANGED <<lock, cache, prodVars, show_slam, snapVars, uiVars, ctlVars, histVars>>

\* except KeyboardInterrupt: print(...)
Except ==
  /\ pc = "except"
  /\ pc' = "finally"
  /\ UNCHANGED <<lock, cache, prodVars, show_slam, snapVars, uiVars, ctlVars, histVars>>

\* faulty variant: the teardown also resets the cache globals
FinallyClearsCache ==
  /\ pc = "finally"
  /\ windows' = [s \in Streams |-> NoWindow]
  /\ destroyed' = TRUE
  /\ pc' = "print_done"
  /\ latest_rgb' = None /\ latest_slam' = None
  /\ latest_rgb_ts' = NoneTs /\ latest_slam_ts' = NoneTs
  /\ UNCHANGED <<lock, prodVars, show_slam, snapVars, key, presented, ctlVars, histVars>>

\* finally: cv2.destroyAllWindows()
Finally ==
  /\ pc = "finally"
  /\ windows' = [s \in Streams |-> NoWindow]
  /\ destroyed' = TRUE
  /\ pc' = "print_done"
  /\ UNCHANGED <<lock, cache, prodVars, show_slam, snapVars, key, presented, ctlVars, histVars>>

\* main() returns or raises: its frame, and with it its locals, is gone
Return ==
  /\ rgb' = None /\ slam' = None /\ rgb_ts' = NoneTs /\ slam_ts' = NoneTs
  /\ key' = -1

\* print("[Receiver] Done."); main() returns, or re-raises what is pending
PrintDone ==
  /\ pc = "print_done"
  /\ pc' = "done"
  /\ exit' = IF pending THEN "KeyboardInterrupt" ELSE "ok"
  /\ Return
  /\ UNCHANGED <<lock, cache, prodVars, show_slam, windows, presented, destroyed, pending, sigints, histVars>>

\* where a KeyboardInterrupt raised at position at of main() continues:
\* inside the try body the except clause catches it; in the except clause
\* the finally block still runs, and the exception goes on afterwards;
\* before the try, and inside the finally block, nothing catches it
Handler(at) ==
  IF at \in LoopPCs THEN "except"
  ELSE IF at = "except" THEN "finally"
  ELSE "done"

\* faulty variant: the lock is taken and released by hand (acquire() ...
\* release()), so an exception inside the body leaves it held
WithExitLeak(at) == lock

\* the holder of the lock after an exception raised at position at of main():
\* "with _lock:" releases the lock when its body is left by an exception
WithExit(at) == IF at \in MainCS THEN NoThread ELSE lock

\* SIGINT: KeyboardInterrupt is raised in the main thread at the statement
\* it is about to execute; a "with _lock:" body being left releases the lock
KeyboardInterrupt ==
  /\ pc \notin {"start_server", "done"}
  /\ sigints' = sigints + 1
  /\ pc' = Handler(pc)
  /\ lock' = WithExit(pc)
  /\ pending' = IF Handler(pc) = "except" THEN FALSE ELSE TRUE
  /\ IF Handler(pc) = "done"
       THEN exit' = "KeyboardInterrupt" /\ Return
       ELSE UNCHANGED <<exit, snapVars, key>>
  /\ IF pc \in LoopPCs THEN EndIteration ELSE UNCHANGED <<presented, snapLen>>
  /\ UNCHANGED <<cache, prodVars, show_slam, windows, destroyed, nPuts, log>>

main ==
  \/ StartServer \/ EnterTry
  \/ SnapshotAcquire \/ CopyRgb \/ CopySlam \/ ReadRgbTs \/ ReadSlamTs \/ SnapshotRelease
  \/ ShowRgb \/ ShowSlam \/ WaitKey \/ Sleep
  \/ Except \/ Finally \/ PrintDone
  \/ KeyboardInterrupt

Next ==
  \/ main
  \/ \E p \in Procs : rgb_callback(p)
  \/ \E p \in Procs : slam_callback(p)

Spec == Init /\ [][Next]_vars

\* the steps main() takes by itself (an interrupt is the environment's)
MainStep ==
  \/ StartServer \/ EnterTry
  \/ SnapshotAcquire \/ CopyRgb \/ CopySlam \/ ReadRgbTs \/ ReadSlamTs \/ SnapshotRelease
  \/ ShowRgb \/ ShowSlam \/ WaitKey \/ Sleep
  \/ Except \/ Finally \/ PrintDone

\* fair scheduling: the main thread keeps running while it has a step to take
\* (waitKey(1) and sleep(0.001) return), and a delivery thread inside a
\* callback keeps running; nothing obliges the device to send a frame or the
\* user to interrupt
Fairness ==
  /\ WF_vars(MainStep)
  /\ \A p \in Procs :
       /\ WF_vars(CallbackAcquire(p))
       /\ WF_vars(StoreImg(p))
       /\ WF_vars(StoreTs(p))
       /\ WF_vars(CallbackRelease(p))

\* progress does not depend on what a frame holds (no statement tests the
\* pixels or the timestamp), so for the progress properties the device sends
\* one and the same frame on either stream
LiveFrames == {[data |-> <<1, 2, 3>>, ts |-> 100]}

LiveNext ==
  \/ main
  \/ \E p \in Procs : rgb_callback_from(p, LiveFrames)
  \/ \E p \in Procs : slam_callback_from(p, LiveFrames)

LiveSpec == Init /\ [][LiveNext]_vars /\ Fairness

TypeOK ==
  /\ lock \in Procs \cup {Main, NoThread}
  /\ pc \in {"start_server", "try", "done"} \cup LoopPCs \cup TeardownPCs
  /\ nPuts \in 0..MaxPuts
  /\ sigints \in 0..3
  /\ exit \in {"none", "ok", "KeyboardInterrupt"}

\* ============================================================ properties
\* all four reads of the current iteration's snapshot have been done
SnapshotComplete == pc \in {"release", "show_rgb", "show_slam", "waitKey", "sleep"}

\* what the display loop holds for stream s: <<pixels, timestamp>>
SnapRec(s) == IF s = "rgb" THEN <<rgb.data, rgb_ts>> ELSE <<slam.data, slam_ts>>
Absent == <<None.data, NoneTs>>
RecOf(e) == <<e.data, e.ts>>

\* the callbacks on stream s among the first n completed ones
PutsOn(s, n) == {i \in 1..n : log[i].stream = s}
Last(S) == CHOOSE i \in S : \A j \in S : j <= i

\* C1: last-write-wins per stream. A snapshot returns, for each stream, the
\* image and timestamp of the last callback on that stream that had completed
\* when the snapshot took the lock (absent when there was none).
C1_LastWriteWins ==
  SnapshotComplete =>
    \A s \in Streams :
      SnapRec(s) = IF PutsOn(s, snapLen) = {} THEN Absent
                   ELSE RecOf(log[Last(PutsOn(s, snapLen))])

\* put(rgb, A, .) then put(rgb, B, .) with B # A, and the snapshot holds B
C1_Witness ==
  /\ SnapshotComplete
  /\ snapLen = 2
  /\ log[1].stream = "rgb" /\ log[2].stream = "rgb"
  /\ log[1].data # log[2].data
  /\ SnapRec("rgb") = RecOf(log[2])

\* C2: no torn read. The <<image, timestamp>> pair a snapshot holds for a
\* stream is absent/absent or is the pair of one single callback invocation
\* on that stream (completed or still in flight); never a mixture.
C2_NoTornRead ==
  SnapshotComplete =>
    \A s \in Streams :
      \/ SnapRec(s) = Absent
      \/ \E i \in PutsOn(s, Len(log)) : SnapRec(s) = RecOf(log[i])
      \/ \E p \in Procs : call[p].stream = s /\ SnapRec(s) = RecOf(call[p])

\* the loop holds the lock with a complete rgb snapshot of one frame while a
\* callback carrying a different rgb frame is waiting for the lock
C2_Witness ==
  /\ pc = "release"
  /\ rgb # None
  /\ \E p \in Procs : /\ ppc[p] = "acquire"
                      /\ call[p].stream = "rgb"
                      /\ call[p].data # rgb.data

\* C3 as stated: for two completed callbacks A, B on one stream, the only ones
\* on it, with A invoked before B completed, the snapshot taken after both
\* reflects B.  (A was invoked before B completed iff A.id <= B.inv.)
C3_InvokedBeforeCompletes ==
  SnapshotComplete =>
    \A s \in Streams : \A i, j \in PutsOn(s, snapLen) :
      (i # j /\ PutsOn(s, snapLen) = {i, j} /\ log[i].id <= log[j].inv)
        => SnapRec(s) = RecOf(log[j])

\* C3 amended: for two completed callbacks A, B on one stream, A having left
\* the lock before B did, a snapshot taken after both (and before any later
\* callback on that stream completes) reflects B, also when the two were in
\* flight together: the one that commits last wins, whichever was invoked first.
C3_CommittedLastWins ==
  SnapshotComplete =>
    \A s \in Streams : \A i, j \in PutsOn(s, snapLen) :
      (i < j /\ j = Last(PutsOn(s, snapLen))) => SnapRec(s) = RecOf(log[j])

\* two rgb callbacks were in flight together, the one invoked second
\* committed first, and the snapshot holds the frame of the other
C3_Witness ==
  /\ SnapshotComplete
  /\ snapLen = 2
  /\ log[1].stream = "rgb" /\ log[2].stream = "rgb"
  /\ log[1].id = 2 /\ log[2].id = 1
  /\ log[1].data # log[2].data
  /\ SnapRec("rgb") = RecOf(log[2])

\* C4: initial absence. Before any callback all four slots are absent, and a
\* snapshot that took the lock before any callback on a stream had completed
\* holds None / None for that stream, whatever happened on the other stream.
C4_InitialAbsence ==
  /\ nPuts = 0 => cache = <<None, None, NoneTs, NoneTs>>
  /\ SnapshotComplete =>
       \A s \in Streams :
         PutsOn(s, snapLen) = {} =>
           /\ SnapRec(s) = Absent
           /\ IF s = "rgb" THEN rgb = None ELSE slam = None

\* a snapshot with a slam frame present and rgb still absent
C4_Witness ==
  /\ SnapshotComplete
  /\ PutsOn("rgb", snapLen) = {} /\ PutsOn("slam", snapLen) # {}
  /\ rgb = None /\ rgb_ts = NoneTs
  /\ slam # None

\* the slot of stream s: <<image array, timestamp>>
Slot(s) == IF s = "rgb" THEN <<latest_rgb, latest_rgb_ts>> ELSE <<latest_slam, latest_slam_ts>>

\* C5: cross-stream independence. Once a callback on a stream has completed,
\* that stream's slot holds the array and timestamp of a callback on that same
\* stream whenever the lock is free, whatever runs on the other stream; and a
\* snapshot taken after a callback on each stream has completed shows both.
C5_CrossStreamIndependence ==
  /\ lock = NoThread =>
       \A s \in Streams :
         PutsOn(s, Len(log)) # {} =>
           \E i \in PutsOn(s, Len(log)) :
             Slot(s) = <<[obj |-> log[i].id, data |-> log[i].data], log[i].ts>>
  /\ SnapshotComplete =>
       \A s \in Streams :
         PutsOn(s, snapLen) # {} =>
           \E i \in PutsOn(s, snapLen) : SnapRec(s) = RecOf(log[i])

\* an rgb and a slam callback were in flight together (both invoked before
\* the first of them completed) and the snapshot shows both
C5_Witness ==
  /\ SnapshotComplete
  /\ snapLen = 2
  /\ log[1].stream # log[2].stream
  /\ log[1].inv = 2
  /\ rgb # None /\ slam # None

\* threads inside a "with _lock:" body
InCS == {p \in Procs : ppc[p] \in ProdCS} \cup (IF pc \in MainCS THEN {Main} ELSE {})

\* C6: mutual exclusion. A thread positioned at a statement that reads or
\* writes a slot holds the lock, and at most one thread is inside a critical
\* section.
C6_MutualExclusion ==
  /\ \A t \in InCS : lock = t
  /\ Cardinality(InCS) <= 1
  /\ InCS = {} => lock = NoThread

\* the loop is inside its critical section while both delivery threads wait
C6_Witness ==
  /\ pc = "copy_slam"
  /\ \A p \in Procs : ppc[p] = "acquire"

\* C7 as stated: whenever the loop has left RUNNING and the program reaches
\* STOPPED, destroyAllWindows has been executed.
C7_GuaranteedTeardown == [][(STOPPING /\ STOPPED') => destroyed']_vars

\* C8: termination conditions. RUNNING is left only by the key poll reading
\* the quit key or by an interrupt, and then to STOPPING; STOPPING goes on to
\* STOPPED only; STOPPED is terminal; once RUNNING has been left no window is
\* drawn and no snapshot is taken.
C8_TerminationConditions ==
  [][ /\ (RUNNING /\ ~RUNNING') =>
            /\ STOPPING'
            /\ \/ pc = "waitKey" /\ key' = QuitKey /\ sigints' = sigints
               \/ sigints' = sigints + 1
      /\ STOPPING => (STOPPING' \/ STOPPED')
      /\ STOPPED => (STOPPED' /\ UNCHANGED <<snapVars, uiVars, ctlVars>>)
      /\ (STOPPING \/ STOPPED) =>
            /\ \A s \in Streams : windows'[s] \in {windows[s], NoWindow}
            /\ presented' = presented
            /\ lock' # Main
            /\ snapVars' = snapVars \/ (STOPPED' /\ snapVars' = <<None, None, NoneTs, NoneTs>>)
    ]_vars

\* the program has stopped after the quit key, with no interrupt, after at
\* least one callback had completed, and the windows are released
C8_Witness ==
  /\ STOPPED /\ exit = "ok" /\ sigints = 0
  /\ destroyed
  /\ Len(log) > 0

\* C9 as stated: the program ends with success status, no exception leaving
\* main(), after a quit as well as after an interrupt.
C9_ExitSuccess == STOPPED => exit = "ok"

\* C10: SLAM window gating. With --show-slam unset no SLAM window is ever
\* drawn or open; with it set, once the iteration is past its display
\* statements the SLAM window has been drawn in it exactly when the
\* iteration's snapshot holds a SLAM image.
C10_SlamGating ==
  /\ ~show_slam => ("slam" \notin presented /\ windows["slam"] = NoWindow)
  /\ (show_slam /\ pc \in {"waitKey", "sleep"}) => ("slam" \in presented <=> slam # None)

\* --show-slam unset, the snapshot holds a SLAM frame, the iteration has drawn
\* the RGB window and is at the key poll
C10_Witness ==
  /\ ~show_slam
  /\ pc = "waitKey"
  /\ slam # None
  /\ presented = {"rgb"}

\* C11: an absent frame is not an error. Past the display statements of an
\* iteration the RGB window has been drawn in it exactly when the snapshot's
\* RGB image is present, and the SLAM window only when its image is present;
\* a display statement that finds its image absent draws nothing, raises
\* nothing and goes on to the next statement, and the key poll that does not
\* read the quit key goes on to the sleep and the next iteration.
C11_AbsentFrameNotAnError ==
  /\ [](pc \in {"show_slam", "waitKey", "sleep"} => ("rgb" \in presented <=> rgb # None))
  /\ [](pc \in {"waitKey", "sleep"} => ("slam" \in presented => slam # None))
  /\ [][ /\ (pc = "show_rgb" /\ rgb = None /\ sigints' = sigints /\ pc' # pc) =>
              (pc' = "show_slam" /\ windows' = windows /\ presented' = presented /\ exit' = "none")
         /\ (pc = "show_slam" /\ slam = None /\ sigints' = sigints /\ pc' # pc) =>
              (pc' = "waitKey" /\ windows' = windows /\ presented' = presented /\ exit' = "none")
         /\ (pc = "waitKey" /\ sigints' = sigints /\ pc' # pc /\ key' # QuitKey) => pc' = "sleep"
         /\ (pc = "sleep" /\ sigints' = sigints /\ pc' # pc) => pc' = "acquire"
       ]_vars

\* SLAM display is on, the snapshot holds a SLAM frame and no RGB frame: the
\* iteration drew the SLAM window only and is at the key poll, still running
C11_Witness ==
  /\ pc = "waitKey"
  /\ rgb = None /\ slam # None
  /\ presented = {"slam"}
  /\ exit = "none"

\* C13: short critical sections. The lock is held by a thread only while it
\* is inside its "with _lock:" body: a delivery thread that has decoded its
\* image and not yet entered the body does not hold it, and the display loop
\* does not hold it while rendering, polling the key, sleeping or tearing
\* down, so a callback waiting for the lock is never waiting for those.
C13_ShortCriticalSections ==
  /\ \A p \in Procs : ppc[p] \in {"idle", "acquire"} => lock # p
  /\ pc \notin MainCS => lock # Main

\* the loop is rendering while a callback that has decoded its image takes
\* the lock
C13_Witness ==
  /\ pc = "show_rgb" /\ rgb # None
  /\ \E p \in Procs : ppc[p] = "store_img" /\ lock = p

\* what imshow puts in the window of stream s for the record e
Render(s, e) ==
  IF s = "rgb" THEN putText(cvtColor([obj |-> 0, data |-> e.data]), e.ts)
  ELSE [img |-> e.data, text |-> NoneTs]

\* C14: most-recent-frame display. A window drawn in the current iteration
\* shows the record of the last callback on its stream that had completed when
\* the iteration's snapshot took the lock; an older record of the stream is
\* not shown, whether or not a snapshot ever read it.
C14_MostRecentFrame ==
  \A s \in presented :
    /\ PutsOn(s, snapLen) # {}
    /\ windows[s] = Render(s, log[Last(PutsOn(s, snapLen))])

\* two different rgb frames were committed before the first snapshot that saw
\* either; the window shows the second
C14_Witness ==
  /\ "rgb" \in presented
  /\ snapLen = 2
  /\ log[1].stream = "rgb" /\ log[2].stream = "rgb"
  /\ log[1].data # log[2].data
  /\ windows["rgb"] = Render("rgb", log[2])
  /\ windows["rgb"] # Render("rgb", log[1])

\* C12: the display loop never blocks indefinitely. Under fair scheduling
\* an iteration that has started reaches its key poll, and the key poll is
\* followed by the next iteration, unless the loop is left; this holds
\* whatever the delivery threads do, also when no frame is ever delivered.
\* Once the key poll has read the quit key the program reaches STOPPED.
C12_LoopNeverBlocks ==
  /\ (pc = "acquire") ~> (pc = "waitKey" \/ ~RUNNING)
  /\ (pc = "waitKey") ~> (pc = "acquire" \/ ~RUNNING)
  /\ (key = QuitKey) ~> STOPPED

\* an iteration has completed although no frame was ever delivered
C12_Witness ==
  /\ pc = "sleep"
  /\ nPuts = 0
  /\ rgb = None /\ slam = None

\* C18: the lock is always released. Whoever holds the lock is inside its
\* "with _lock:" body; the display loop leaving its body, at the end of the
\* body or by an interrupt raised inside it, no longer holds the lock; under
\* fair scheduling a held lock becomes free again, and a callback waiting for
\* the lock once the display loop has stopped gets past the wait.
C18_LockAlwaysReleased ==
  /\ [](lock = Main => pc \in MainCS)
  /\ [](\A p \in Procs : lock = p => ppc[p] \in ProdCS)
  /\ [][(pc \in MainCS /\ pc' \notin MainCS) => lock' # Main]_vars
  /\ [][\A p \in Procs : (ppc[p] \in ProdCS /\ ppc'[p] \notin ProdCS) => lock' # p]_vars
  /\ (lock # NoThread) ~> (lock = NoThread)
  /\ \A p \in Procs : (ppc[p] = "acquire" /\ (STOPPING \/ STOPPED)) ~> (ppc[p] # "acquire")

\* the loop was interrupted inside the snapshot body (the RGB image copied,
\* its timestamp not yet read); the lock is free and a callback is about to
\* take it
C18_Witness ==
  /\ pc = "except"
  /\ rgb # None /\ rgb_ts = NoneTs
  /\ lock = NoThread
  /\ \E p \in Procs : ppc[p] = "acquire"

\* the callbacks, completed or in flight, whose array is object k
PutsWithId(k) ==
  {log[i] : i \in {j \in 1..Len(log) : log[j].id = k}}
    \cup {call[p] : p \in {q \in Procs : call[q].id = k}}

\* C15: stored buffers are immutable. A cached array holds the pixels its
\* callback decoded; no step changes the pixels of an array that stays in a
\* slot, a slot's image changes only by a callback storing its own new array,
\* and the arrays the display loop converts and annotates are private copies
\* (object 0), never a cached array.
C15_StoredBuffersImmutable ==
  /\ [](\A a \in {latest_rgb, latest_slam} :
          a # None => \E c \in PutsWithId(a.obj) : a.data = c.data)
  /\ [](\A a \in {rgb, slam} : a # None => a.obj = 0)
  /\ [][ /\ latest_rgb'.obj = latest_rgb.obj => latest_rgb'.data = latest_rgb.data
         /\ latest_slam'.obj = latest_slam.obj => latest_slam'.data = latest_slam.data
         /\ latest_rgb' # latest_rgb =>
              \E p \in Procs : ppc[p] = "store_img" /\ latest_rgb' = img[p]
                               /\ latest_rgb'.obj # latest_rgb.obj
         /\ latest_slam' # latest_slam =>
              \E p \in Procs : ppc[p] = "store_img" /\ latest_slam' = img[p]
                               /\ latest_slam'.obj # latest_slam.obj
       ]_vars

\* the RGB window has been drawn from the loop's converted and annotated copy
\* while the cached array still holds the pixels as decoded
C15_Witness ==
  /\ "rgb" \in presented
  /\ rgb # None /\ rgb.obj = 0
  /\ latest_rgb.obj > 0
  /\ latest_rgb.data = rgb.data
  /\ windows["rgb"].img # latest_rgb.data

\* C16: the display loop is read-only on the cache. A step of main() (its
\* position changes, or an interrupt is taken) leaves the four slots
\* unchanged; a step that changes a slot is a store of a callback, which
\* changes only the image or timestamp of that callback's own stream.
C16_LoopReadOnly ==
  [][ /\ (pc' # pc \/ sigints' # sigints) => cache' = cache
      /\ cache' # cache =>
           \E p \in Procs :
             /\ ppc[p] \in {"store_img", "store_ts"} /\ ppc'[p] # ppc[p]
             /\ call[p].stream = "rgb" =>
                  (latest_slam' = latest_slam /\ latest_slam_ts' = latest_slam_ts)
             /\ call[p].stream = "slam" =>
                  (latest_rgb' = latest_rgb /\ latest_rgb_ts' = latest_rgb_ts)
    ]_vars

\* the program has stopped after snapshots, rendering and teardown, and both
\* slots still hold what the callbacks stored
C16_Witness ==
  /\ STOPPED /\ destroyed
  /\ latest_rgb # None /\ latest_slam # None
  /\ latest_rgb_ts # NoneTs /\ latest_slam_ts # NoneTs

\* the completed callbacks on stream s whose record a window showing w shows
ShownAs(s, w) == {i \in PutsOn(s, Len(log)) : Render(s, log[i]) = w}

\* C17: displayed frames never go backwards. While a stream's window is
\* open a complete snapshot holds an image for that stream; and when a
\* drawing replaces what a window shows by something else, the new content
\* is the record of a callback that committed after one whose record the
\* window showed before.
C17_NeverBackwards ==
  /\ []((SnapshotComplete /\ windows["rgb"] # NoWindow) => rgb # None)
  /\ []((SnapshotComplete /\ windows["slam"] # NoWindow) => slam # None)
  /\ [][\A s \in Streams :
          (windows'[s] # windows[s] /\ windows[s] # NoWindow /\ windows'[s] # NoWindow) =>
            \E i \in ShownAs(s, windows[s]), j \in ShownAs(s, windows'[s]) : i < j
       ]_vars

\* the window still shows the first committed rgb record from an earlier
\* iteration, and the new snapshot holds the second, different one
C17_Witness ==
  /\ pc = "show_rgb"
  /\ Len(log) = 2
  /\ log[1].stream = "rgb" /\ log[2].stream = "rgb"
  /\ log[1].data # log[2].data
  /\ windows["rgb"] = Render("rgb", log[1])
  /\ SnapRec("rgb") = RecOf(log[2])

====
